---- MODULE Spec2Model ----
(***************************************************************************)
(* State-machine model of the VMware Aria Operations Prometheus exporter   *)
(* (vmware_aria_exporter.py, the "basic" variant, and                       *)
(* vmware_aria_exporter_advanced.py, the "advanced" variant).               *)
(*                                                                         *)
(* The main thread goes main() -> __init__ -> authenticate() -> run() ->    *)
(* update_metrics() cycles; every HTTP call of the session is a sequence of *)
(* attempts governed by the retry policy mounted in create_session().       *)
(***************************************************************************)
EXTENDS Integers, Sequences, FiniteSets, TLC

\* ------------------------------------------------------------------ bounds
MaxCycles == 2
MaxFaults == 1
MaxCalls == 2
MaxTotal == 3
MaxPageSize == 2
MaxAlerts == 1
MaxScrapes == 1
MaxPages == 5

\* ------------------------------------------------------- program constants
RetryTotal == 3

VARIABLES
    variant,               \* which of the two source files runs
    pc,                    \* position of the main thread
    token,                 \* self.token ("" is None)
    listening,             \* start_http_server() has been called
    http,                  \* the session call in flight
    faults,                \* calls on which the upstream or the network failed
    rejected_since,        \* the cycle in which the upstream began to reject
                           \* the token (-1: it accepts the token)
    calls,                 \* direct make_api_request() calls made so far
    ret,                   \* value returned by the last make_api_request()
    api_requests_total,    \* Counter, by (endpoint, method, status_code)
    api_request_duration,  \* Histogram observation count, by (endpoint, method)
    collection_errors,     \* Counter, by (endpoint, error_type)
    config,                \* self.config, fixed once loaded
    kwargs,                \* main(): the command-line values that were given
    file_config,           \* what the --config file holds
    environ,               \* VMWARE_ARIA_PASSWORD ("" is unset)
    resolved,              \* load_config(): the whole tree it returned
    password,              \* self.password ("" is None or empty)
    cycle,                 \* update_metrics() calls started by run()
    upstream,              \* what the upstream holds during the cycle
    params_page,           \* get_resources: params['page']
    page_requests,         \* get_resources: page requests issued
    resources_exit,        \* get_resources: how its loop was left
    resources,             \* the list get_resources builds and returns
    idx,                   \* update_metrics: position of the resource walk
    resource_counts,       \* update_metrics: the local dict of counts
    stats_requests,        \* ids get_resource_stats() was called with, this cycle
    stats,                 \* update_metrics: what get_resource_stats returned
    extra_labels,          \* update_metrics: the resource's derived labels
    alerts,                \* update_metrics: the list get_alerts returned
    resource_count,        \* Gauge, by (resource_type, adapter_kind)
    alert_count,           \* Gauge, by (criticality, status)
    performance_metric,    \* Gauge, by the performance label set
    cycle_view,            \* the three gauges as the running cycle found them
    scraped                \* what the scrape thread served during the cycle

counterVars == <<api_requests_total, api_request_duration, collection_errors>>
gaugeVars == <<resource_count, alert_count, performance_metric>>
walkVars == <<stats_requests, stats, extra_labels>>
localVars == <<params_page, page_requests, resources_exit, resources, idx,
               resource_counts, walkVars, alerts>>
scrapeVars == <<cycle_view, scraped>>
startVars == <<kwargs, file_config, environ, resolved, password>>
cycleVars == <<cycle, upstream, localVars, gaugeVars, scrapeVars>>

vars == <<variant, pc, token, listening, http, faults, rejected_since, calls,
          ret,
          counterVars, config, startVars, cycleVars>>

\* ------------------------------------------------------------ small helpers
Variants == {"basic", "advanced"}

\* Mutant of Inc: the entry is set to 1 for being raised by 1.
Inc_once(counter, labels) ==
    [k \in DOMAIN counter \cup {labels} |->
        IF k = labels THEN 1 ELSE counter[k]]

\* Counter.labels(...).inc(): a series appears with its first increment.
Inc(counter, labels) ==
    [k \in DOMAIN counter \cup {labels} |->
        IF k = labels
        THEN (IF labels \in DOMAIN counter THEN counter[labels] ELSE 0) + 1
        ELSE counter[k]]

Value(counter, labels) ==
    IF labels \in DOMAIN counter THEN counter[labels] ELSE 0

RECURSIVE SumOver(_, _)
SumOver(counter, keys) ==
    IF keys = {} THEN 0
    ELSE LET k == CHOOSE x \in keys : TRUE
         IN counter[k] + SumOver(counter, keys \ {k})

Total(counter) == SumOver(counter, DOMAIN counter)

\* ------------------------------------------------------------ the upstream
\* Paths are kept as the segments str.split('/') yields.
AuthPath == <<"", "api", "auth", "token", "acquire">>
ResourcesPath == <<"", "api", "resources">>
AlertsPath == <<"", "api", "alerts">>
StatsPath(id) == <<"", "api", "resources", id, "stats">>

\* What one attempt of a request can meet: no connection (the request never
\* leaves), a connection lost or timed out after the request was written, or
\* a response with a status and a body.
NoResult == [kind |-> "none", status |-> 0, body |-> "", exc |-> ""]
Response(status, body) ==
    [kind |-> "response", status |-> status, body |-> body, exc |-> ""]
Raised(exc) == [kind |-> "raised", status |-> 0, body |-> "", exc |-> exc]

Statuses == {200, 401, 503}
Bodies == {"json", "empty", "garbage"}

AttemptOutcomes ==
    {[kind |-> "conn_err", status |-> 0, body |-> ""],
     [kind |-> "read_err", status |-> 0, body |-> ""]}
    \cup {[kind |-> "response", status |-> s, body |-> "garbage"] :
            s \in Statuses \ {200}}
    \cup {[kind |-> "response", status |-> 200, body |-> b] : b \in Bodies}

IsFault(o) == ~(o.kind = "response" /\ o.status = 200 /\ o.body = "json")

\* What a request gets once the upstream rejects the token it carries.
Rejection == [kind |-> "response", status |-> 401, body |-> "garbage"]

\* ------------------------------------------------------------- the session
\* Mutants of create_session: a larger retry budget; POST among the
\* retried methods.
create_session_more_retries ==
    [total |-> RetryTotal + 2,
     status_forcelist |-> {429, 500, 502, 503, 504},
     allowed_methods |-> {"HEAD", "GET", "OPTIONS"},
     read |-> TRUE]

create_session_retry_post ==
    [total |-> RetryTotal,
     status_forcelist |-> {429, 500, 502, 503, 504},
     allowed_methods |-> {"HEAD", "GET", "OPTIONS", "POST"},
     read |-> TRUE]

\* create_session(): Retry(total=3, status_forcelist=[429, 500, 502, 503, 504],
\* allowed_methods=["HEAD", "GET", "OPTIONS"]) mounted on the session.
create_session ==
    [total |-> RetryTotal,
     status_forcelist |-> {429, 500, 502, 503, 504},
     allowed_methods |-> {"HEAD", "GET", "OPTIONS"},
     read |-> TRUE]

\* The basic variant uses requests.Session() as it comes: no retries.
default_session ==
    [total |-> 0,
     status_forcelist |-> {},
     allowed_methods |-> {"HEAD", "GET", "OPTIONS"},
     read |-> FALSE]

Session(v) == IF v = "advanced" THEN create_session ELSE default_session

\* Retry.is_retry(): a status is retried for an allowed method only.
is_retry(s, method, status) ==
    method \in s.allowed_methods /\ status \in s.status_forcelist

\* A read error is retried for an allowed method only; a connection error
\* (the request was not sent) for every method.
read_retryable(s, method) == s.read /\ method \in s.allowed_methods

Idle ==
    [st |-> "idle", method |-> "", endpoint |-> <<>>, total |-> 0,
     attempts |-> 0, sent |-> 0, faulty |-> FALSE, result |-> NoResult]

\* session.get() / session.post(): a call starts with the policy's budget.
NewCall(v, method, endpoint) ==
    [st |-> "pending", method |-> method, endpoint |-> endpoint,
     total |-> Session(v).total, attempts |-> 0, sent |-> 0,
     faulty |-> FALSE, result |-> NoResult]

\* One attempt of the call in flight meeting outcome o (urlopen's loop under
\* the mounted Retry): retry while the budget is not exhausted, else end with
\* a response or an exception.
AfterAttempt(v, h, o) ==
    LET s == Session(v)
        tried == [h EXCEPT !.attempts = @ + 1,
                           !.sent = IF o.kind = "conn_err" THEN @ ELSE @ + 1,
                           !.faulty = @ \/ IsFault(o)]
        retried == [tried EXCEPT !.total = @ - 1]
        ended(r) == [tried EXCEPT !.st = "done", !.result = r]
        retry_or(exc) ==
            IF h.total - 1 < 0 THEN ended(Raised(exc)) ELSE retried
    IN  CASE o.kind = "conn_err" -> retry_or("ConnectionError")
          [] o.kind = "read_err" ->
                IF read_retryable(s, h.method)
                THEN retry_or("ConnectionError")
                ELSE ended(Raised("ConnectionError"))
          [] OTHER ->
                IF is_retry(s, h.method, o.status)
                THEN retry_or("RetryError")
                ELSE ended(Response(o.status, o.body))

HttpAttempt ==
    /\ http.st = "pending"
    /\ \E o \in AttemptOutcomes :
        /\ IF rejected_since >= 0
           THEN o = Rejection
           ELSE IsFault(o) => (http.faulty \/ faults < MaxFaults)
        /\ http' = AfterAttempt(variant, http, o)
        /\ faults' = IF rejected_since < 0 /\ IsFault(o) /\ ~http.faulty
                      THEN faults + 1 ELSE faults
    /\ UNCHANGED <<variant, startVars, rejected_since, config, pc, token,
                   listening, calls, ret, counterVars, cycleVars>>

\* The token the exporter holds stops being accepted (it expired or was
\* revoked): from here on the upstream answers every request with 401.
TokenRejected ==
    /\ rejected_since = -1
    /\ token # ""
    /\ pc \notin {"stopped", "crashed"}
    /\ rejected_since' = cycle
    /\ UNCHANGED <<variant, startVars, config, pc, token, listening, http,
                   faults, calls, ret, counterVars, cycleVars>>

\* ------------------------------------------------------------ authenticate
\* Response.raise_for_status(): HTTPError for a 4xx or 5xx status.
raise_for_status(status) == 400 <= status /\ status < 600

\* Mutant of authenticate: the except clause logs and does not re-raise.
authenticate_swallow(result) ==
    IF /\ result.kind = "response"
       /\ ~raise_for_status(result.status)
       /\ result.body = "json"
    THEN [token |-> "tok", err |-> ""]
    ELSE [token |-> "", err |-> ""]

\* authenticate(): what the POST's result leads to. err is the exception that
\* leaves the method ("" when the token was stored).
authenticate(result) ==
    IF result.kind = "raised" THEN [token |-> "", err |-> result.exc]
    ELSE IF raise_for_status(result.status)
         THEN [token |-> "", err |-> "HTTPError"]
    ELSE IF result.body = "garbage"
         THEN [token |-> "", err |-> "JSONDecodeError"]
    ELSE IF result.body = "empty"
         THEN [token |-> "", err |-> "Exception"]
    ELSE [token |-> "tok", err |-> ""]

\* main() builds the exporter: __init__ creates the session and the metrics
\* and calls authenticate(), which POSTs the credentials.
BeginAuthenticate ==
    /\ pc = "main"
    /\ pc' = "authenticate"
    /\ http' = NewCall(variant, "POST", AuthPath)
    /\ UNCHANGED <<variant, startVars, rejected_since, config, token,
                   listening, faults, calls, ret, counterVars, cycleVars>>

AuthenticateReturn ==
    /\ pc = "authenticate"
    /\ http.st = "done"
    /\ LET a == authenticate(http.result)
       IN  /\ token' = a.token
           /\ pc' = IF a.err = "" THEN "constructed" ELSE "aborted"
           /\ IF variant = "advanced"
              THEN /\ api_requests_total' =
                        IF http.result.kind = "response"
                        THEN Inc(api_requests_total,
                                 <<<<"auth">>, "POST", http.result.status>>)
                        ELSE api_requests_total
                   /\ api_request_duration' =
                        IF http.result.kind = "response"
                        THEN Inc(api_request_duration, <<<<"auth">>, "POST">>)
                        ELSE api_request_duration
                   /\ collection_errors' =
                        IF a.err # ""
                        THEN Inc(collection_errors, <<"auth", a.err>>)
                        ELSE collection_errors
              ELSE UNCHANGED counterVars
    /\ UNCHANGED <<variant, startVars, rejected_since, config, listening, http,
                   faults, calls, ret, cycleVars>>

\* -------------------------------------------------------- make_api_request
Methods == {"GET", "POST", "PUT"}

\* endpoint.split('/')[2] if len(endpoint.split('/')) > 2 else 'unknown'
error_endpoint(endpoint) ==
    IF Len(endpoint) > 2 THEN endpoint[3] ELSE "unknown"

\* Mutant of make_api_request: the method check stands before the try, so
\* its ValueError leaves the method.
make_api_request_unguarded(method, result) ==
    IF method \notin {"GET", "POST"}
    THEN [data |-> "None", counted |-> FALSE, err |-> "",
          raises |-> TRUE]
    ELSE IF result.kind = "raised"
    THEN [data |-> "None", counted |-> FALSE, err |-> result.exc,
          raises |-> FALSE]
    ELSE IF raise_for_status(result.status)
    THEN [data |-> "None", counted |-> TRUE, err |-> "HTTPError",
          raises |-> FALSE]
    ELSE IF result.body = "garbage"
    THEN [data |-> "None", counted |-> TRUE, err |-> "JSONDecodeError",
          raises |-> FALSE]
    ELSE [data |-> result.body, counted |-> TRUE, err |-> "",
          raises |-> FALSE]

\* make_api_request() once the session call has ended with result (or, for
\* an unsupported method, was never made): the value returned ("json", or
\* "None"), whether the request counter and the latency histogram are
\* touched, the exception caught ("" for none), and whether an exception
\* leaves the method (its except clause takes every Exception).
make_api_request(method, result) ==
    IF method \notin {"GET", "POST"}
    THEN [data |-> "None", counted |-> FALSE, err |-> "ValueError",
          raises |-> FALSE]
    ELSE IF result.kind = "raised"
    THEN [data |-> "None", counted |-> FALSE, err |-> result.exc,
          raises |-> FALSE]
    ELSE IF raise_for_status(result.status)
    THEN [data |-> "None", counted |-> TRUE, err |-> "HTTPError",
          raises |-> FALSE]
    ELSE IF result.body = "garbage"
    THEN [data |-> "None", counted |-> TRUE, err |-> "JSONDecodeError",
          raises |-> FALSE]
    ELSE [data |-> result.body, counted |-> TRUE, err |-> "",
          raises |-> FALSE]

\* The registry after make_api_request(endpoint, method) ended with result.
RequestsAfter(endpoint, method, result) ==
    IF make_api_request(method, result).counted
    THEN Inc(api_requests_total, <<endpoint, method, result.status>>)
    ELSE api_requests_total

DurationAfter(endpoint, method, result) ==
    IF make_api_request(method, result).counted
    THEN Inc(api_request_duration, <<endpoint, method>>)
    ELSE api_request_duration

ErrorsAfter(endpoint, method, result) ==
    IF make_api_request(method, result).err # ""
    THEN Inc(collection_errors,
             <<error_endpoint(endpoint), make_api_request(method, result).err>>)
    ELSE collection_errors

Endpoints == {ResourcesPath, AlertsPath, StatsPath("id1"), <<"", "x">>}

\* A direct call of make_api_request(endpoint, method) on a constructed
\* exporter: the session call starts, unless the method is unsupported.
ApiCall ==
    /\ pc = "constructed"
    /\ variant = "advanced"
    /\ calls < MaxCalls
    /\ \E e \in Endpoints, m \in Methods :
        /\ http' = IF m \in {"GET", "POST"} THEN NewCall(variant, m, e)
                   ELSE [Idle EXCEPT !.st = "done", !.method = m,
                                     !.endpoint = e]
    /\ pc' = "make_api_request"
    /\ calls' = calls + 1
    /\ ret' = "pending"
    /\ UNCHANGED <<variant, startVars, rejected_since, config, token,
                   listening, faults, counterVars, cycleVars>>

ApiReturn ==
    /\ pc = "make_api_request"
    /\ http.st = "done"
    /\ ret' = make_api_request(http.method, http.result).data
    /\ api_requests_total' =
            RequestsAfter(http.endpoint, http.method, http.result)
    /\ api_request_duration' =
            DurationAfter(http.endpoint, http.method, http.result)
    /\ collection_errors' =
            ErrorsAfter(http.endpoint, http.method, http.result)
    /\ pc' = IF make_api_request(http.method, http.result).raises
             THEN "crashed" ELSE "constructed"
    /\ UNCHANGED <<variant, startVars, rejected_since, config, token,
                   listening, http, faults, calls, cycleVars>>

\* ------------------------------------------------------------ configuration
\* load_config(): the defaults, and a file that adds a resource-name pattern.
DefaultConfig ==
    [detailed_resource_types |->
        {"VirtualMachine", "HostSystem", "ClusterComputeResource"},
     max_stats_per_resource |-> 10,
     static |-> << >>,
     resource_patterns |-> << >>]

VmPattern == "^vm-(\\d+)$"
HostPattern == "^host-(\\d+)$"
\* A pattern without a capturing group, and one that does not compile.
NoGroupPattern == "^vm-"
BadPattern == "("

PatternConfig ==
    [DefaultConfig EXCEPT !.resource_patterns = [l \in {"vm_id"} |-> VmPattern]]

\* Patterns of every kind in one file.
MixedPatternConfig ==
    [DefaultConfig EXCEPT !.resource_patterns =
        [l \in {"vm_id", "host_id", "is_vm", "broken"} |->
            CASE l = "vm_id" -> VmPattern
              [] l = "host_id" -> HostPattern
              [] l = "is_vm" -> NoGroupPattern
              [] OTHER -> BadPattern]]

\* Patterns none of which yields a label for a name of the form vm-N.
InertPatternConfig ==
    [DefaultConfig EXCEPT !.resource_patterns =
        [l \in {"host_id", "is_vm", "broken"} |->
            CASE l = "host_id" -> HostPattern
              [] l = "is_vm" -> NoGroupPattern
              [] OTHER -> BadPattern]]

\* Files that set the limit, the allow-list or a static label.
LimitConfigs ==
    {[DefaultConfig EXCEPT !.max_stats_per_resource = n] : n \in {-1, 0, 1}}

DatastoreConfig ==
    [DefaultConfig EXCEPT !.detailed_resource_types = {"Datastore"}]

StaticConfig ==
    [DefaultConfig EXCEPT !.static = [l \in {"site"} |-> "lab"]]

WalkConfigs(v) ==
    IF v = "advanced"
    THEN {DefaultConfig, PatternConfig, MixedPatternConfig,
          InertPatternConfig, DatastoreConfig, StaticConfig}
         \cup LimitConfigs
    ELSE {DefaultConfig}

\* The basic variant has the allow-list and the limit written into the code.
Configs(v) ==
    IF v = "advanced" THEN {DefaultConfig, PatternConfig} ELSE {DefaultConfig}

\* ------------------------------------------------- load_config, deep_merge
\* A YAML value: a mapping, or anything else (string, number, list, null).
Map(items) == [tag |-> "map", items |-> items, value |-> ""]
Scalar(value) == [tag |-> "scalar", items |-> << >>, value |-> value]

\* No --config argument, or a path that does not exist.
NoFile == [tag |-> "absent", items |-> << >>, value |-> ""]
\* self.config before load_config() has returned.
NotLoaded == [tag |-> "unset", items |-> << >>, value |-> ""]

\* dict.update(): the second mapping's entries win.
update(d, e) ==
    [k \in DOMAIN d \cup DOMAIN e |-> IF k \in DOMAIN e THEN e[k] ELSE d[k]]

\* dict.get(key, default)
get(d, key, default) == IF key \in DOMAIN d THEN d[key] ELSE default

\* default_config of load_config(): the hard-coded values, with kwargs.get()
\* in the individually-settable fields.
default_config(kw) ==
    Map([section \in {"vmware_aria", "exporter", "metrics", "labels"} |->
        CASE section = "vmware_aria" ->
                Map([k \in {"host", "username", "password", "verify_ssl"} |->
                    CASE k = "host" ->
                            Scalar(get(kw, "host", "192.168.31.31"))
                      [] k = "username" ->
                            Scalar(get(kw, "username", "admin"))
                      [] k = "password" -> Scalar(get(kw, "password", ""))
                      [] OTHER -> Scalar(get(kw, "verify_ssl", "False"))])
          [] section = "exporter" ->
                Map([k \in {"port", "interval", "log_level"} |->
                    CASE k = "port" -> Scalar(get(kw, "port", "8000"))
                      [] k = "interval" -> Scalar(get(kw, "interval", "300"))
                      [] OTHER -> Scalar(get(kw, "log_level", "INFO"))])
          [] section = "metrics" ->
                Map([k \in {"detailed_resource_types",
                            "max_stats_per_resource",
                            "stats_time_range_hours", "timeouts"} |->
                    CASE k = "detailed_resource_types" ->
                            Scalar("[VirtualMachine, HostSystem, ClusterComputeResource]")
                      [] k = "max_stats_per_resource" -> Scalar("10")
                      [] k = "stats_time_range_hours" -> Scalar("1")
                      [] OTHER ->
                            Map([t \in {"resources", "alerts", "stats",
                                        "supermetrics"} |->
                                CASE t = "resources" -> Scalar("60")
                                  [] t = "stats" -> Scalar("45")
                                  [] OTHER -> Scalar("30")])])
          [] OTHER ->
                Map([k \in {"static", "resource_patterns"} |-> Map(<< >>)])])

\* Mutant of deep_merge: dict.update(), the file's value replaces the
\* default's whether or not both are mappings.
deep_merge_shallow(base, update_) ==
    Map([key \in DOMAIN base.items \cup DOMAIN update_.items |->
        IF key \in DOMAIN update_.items THEN update_.items[key]
        ELSE base.items[key]])

\* deep_merge(base, update): both are mappings when it is called.
RECURSIVE deep_merge(_, _)
deep_merge(base, update_) ==
    Map([key \in DOMAIN base.items \cup DOMAIN update_.items |->
        IF key \notin DOMAIN update_.items THEN base.items[key]
        ELSE IF /\ key \in DOMAIN base.items
                /\ base.items[key].tag = "map"
                /\ update_.items[key].tag = "map"
        THEN deep_merge(base.items[key], update_.items[key])
        ELSE update_.items[key]])

\* load_config(): a file that is absent is not read; one whose document is
\* not a mapping makes deep_merge() raise on update.items(), which the
\* except clause turns into the defaults.
load_config(file, kw) ==
    IF file.tag = "map" THEN deep_merge(default_config(kw), file)
    ELSE default_config(kw)

\* self.password = aria_config.get('password') or os.getenv(...) in the
\* advanced variant; args.password or os.getenv(...) in main() of the basic.
password_of(v, tree, kw, env) ==
    LET given == IF v = "advanced"
                 THEN get(tree.items["vmware_aria"].items, "password",
                          Scalar("")).value
                 ELSE get(kw, "password", "")
    IN  IF given # "" THEN given ELSE env

\* Mutant of password_check: the check is not made.
password_check_absent(pw) == "main"

\* if not password: raise ValueError(...)
password_check(pw) == IF pw = "" THEN "config_error" ELSE "main"

\* What the command line may give (verify_ssl is a store_true flag: it is
\* never None, so the advanced main() always passes it on).
Given(field, values) ==
    {<< >>} \cup {[f \in {field} |-> x] : x \in values}

Kwargs(v) ==
    {update(update(update(h, pw), pt), vs) :
        h \in IF v = "advanced" THEN Given("host", {"cli-host"})
              ELSE {[f \in {"host"} |-> "cli-host"]},
        pw \in Given("password", {"", "cli-pw"}),
        pt \in IF v = "advanced" THEN Given("port", {"9100"})
               ELSE {[f \in {"port"} |-> x] : x \in {"8000", "9100"}},
        vs \in {[f \in {"verify_ssl"} |-> x] : x \in {"False", "True"}}}

\* What the configuration file may hold.
Files(v) ==
    IF v = "basic" THEN {NoFile}
    ELSE {NoFile,
          Scalar(""),
          Map([s \in {"vmware_aria"} |->
                  Map([k \in {"host"} |-> Scalar("file-host")])]),
          Map([s \in {"vmware_aria", "exporter"} |->
                  IF s = "vmware_aria"
                  THEN Map([k \in {"password"} |-> Scalar("file-pw")])
                  ELSE Map([k \in {"port"} |-> Scalar("9000")])]),
          Map([s \in {"vmware_aria"} |->
                  Map([k \in {"password", "verify_ssl"} |->
                          IF k = "password" THEN Scalar("")
                          ELSE Scalar("True")])]),
          Map([s \in {"exporter", "metrics"} |->
                  IF s = "exporter"
                  THEN Map([k \in {"port"} |-> Scalar("9000")])
                  ELSE Map([k \in {"timeouts"} |->
                          Map([t \in {"resources"} |-> Scalar("10")])])]),
          Map([s \in {"metrics"} |->
                  Map([k \in {"timeouts"} |-> Scalar("5")])]),
          Map([s \in {"labels", "site"} |->
                  IF s = "labels"
                  THEN Map([k \in {"resource_patterns"} |->
                          Map([l \in {"vm_id"} |-> Scalar(VmPattern)])])
                  ELSE Scalar("lab")])}

\* main() and __init__ up to load_config()'s return (advanced variant).
LoadConfig ==
    /\ pc = "parse_args"
    /\ variant = "advanced"
    /\ resolved' = load_config(file_config, kwargs)
    /\ pc' = "__init__"
    /\ UNCHANGED <<variant, config, kwargs, file_config, environ, password,
                   token, listening, http, faults, rejected_since, calls, ret,
                   counterVars, cycleVars>>

\* The password is resolved and checked: in __init__ before create_session()
\* (advanced), in main() before the exporter is constructed (basic).
CheckPassword ==
    /\ pc = IF variant = "advanced" THEN "__init__" ELSE "parse_args"
    /\ password' = password_of(variant, resolved, kwargs, environ)
    /\ pc' = password_check(password')
    /\ UNCHANGED <<variant, config, kwargs, file_config, environ, resolved,
                   token, listening, http, faults, rejected_since, calls, ret,
                   counterVars, cycleVars>>

\* -------------------------------------------------------- upstream contents
Ids == <<"id1", "id2", "id3", "id4", "id5">>
Names == <<"vm-42", "ds-1", "host-1", "ds-2", "vm-7">>

\* The i-th resource of the upstream's inventory.
Resource(i) ==
    [identifier |-> Ids[i],
     resourceKindKey |-> IF i % 2 = 1 THEN "VirtualMachine" ELSE "Datastore",
     adapterKindKey |-> "VMWARE",
     name |-> Names[i]]

\* The j-th alert the upstream holds.
Alert(j) ==
    [alertLevel |-> IF j % 2 = 1 THEN "CRITICAL" ELSE "WARNING",
     status |-> "ACTIVE"]

Sample(key, data) == [key |-> key, unit |-> "%", data |-> data]

\* The 'values' lists a stats call can return.
StatReplies ==
    {<< >>,
     <<Sample("cpu", << >>)>>,
     <<Sample("cpu", <<1>>)>>,
     <<Sample("cpu", <<1, 2>>), Sample("mem", <<3>>)>>}

\* How the upstream fills the pagination envelope of a page: as the API
\* documents it; without the page index; with index 0 on every page; with
\* a page size of 0.
Envelopes == {"exact", "no_page", "same_page", "zero_size"}

\* The upstream between two cycles: nothing of it is being read.
Unobserved ==
    [total |-> 0, page_size |-> 1, alerts |-> 0, envelope |-> "exact"]

Min(a, b) == IF a < b THEN a ELSE b
Max(a, b) == IF a > b THEN a ELSE b

\* The upstream's answer to GET /api/resources?page=p: its slice of the
\* inventory and the pagination envelope.
PageReply(u, p) ==
    LET first == p * u.page_size
        n == Max(0, Min(u.page_size, u.total - first))
    IN  [resourceList |-> [i \in 1..n |-> first + i],
         pageInfo |->
            CASE u.envelope = "no_page" ->
                    [totalCount |-> u.total, pageSize |-> u.page_size]
              [] u.envelope = "same_page" ->
                    [totalCount |-> u.total, page |-> 0,
                     pageSize |-> u.page_size]
              [] u.envelope = "zero_size" ->
                    [totalCount |-> u.total, page |-> p, pageSize |-> 0]
              [] OTHER ->
                    [totalCount |-> u.total, page |-> p,
                     pageSize |-> u.page_size]]

\* ----------------------------------------------------------- get_resources
\* Mutant of last_page: > for >=.
last_page_strict(page_info) ==
    (get(page_info, "page", 0) + 1) * get(page_info, "pageSize", 1000)
        > get(page_info, "totalCount", 0)

\* total_count = page_info.get('totalCount', 0), current_page =
\* page_info.get('page', 0), page_size = page_info.get('pageSize', 1000);
\* if (current_page + 1) * page_size >= total_count: break
last_page(page_info) ==
    (get(page_info, "page", 0) + 1) * get(page_info, "pageSize", 1000)
        >= get(page_info, "totalCount", 0)

\* Mutant of page_outcome: whatever response came back is taken for data.
page_outcome_unchecked(v, result) ==
    IF result.kind = "raised" THEN [kind |-> "error", err |-> result.exc]
    ELSE [kind |-> "page", err |-> ""]

\* What a page request that ended with result gives the loop: "page" (a
\* body to read), "nodata" (the advanced variant's `if not data`), "error"
\* (the basic variant's except clause, with the exception's type).
page_outcome(v, result) ==
    IF v = "advanced"
    THEN IF make_api_request("GET", result).data = "json"
         THEN [kind |-> "page", err |-> ""]
         ELSE [kind |-> "nodata", err |-> make_api_request("GET", result).err]
    ELSE IF result.kind = "raised" THEN [kind |-> "error", err |-> result.exc]
    ELSE IF raise_for_status(result.status)
         THEN [kind |-> "error", err |-> "HTTPError"]
    ELSE IF result.body = "garbage"
         THEN [kind |-> "error", err |-> "JSONDecodeError"]
    ELSE IF result.body = "empty" THEN [kind |-> "emptypage", err |-> ""]
    ELSE [kind |-> "page", err |-> ""]

\* Mutant of get_resources_turn: a failed page empties the list.
get_resources_turn_drop(v, result, reply, acc) ==
    LET o == page_outcome(v, result)
    IN  IF o.kind = "page"
        THEN [resources |-> acc \o reply.resourceList,
              again |-> ~last_page(reply.pageInfo),
              exit |-> "complete"]
        ELSE [resources |-> << >>, again |-> FALSE,
              exit |-> IF o.kind = "emptypage" THEN "emptybody" ELSE o.kind]

\* Mutant of get_resources_turn: the basic variant's except clause empties
\* the list.
get_resources_turn_basic_drop(v, result, reply, acc) ==
    LET o == page_outcome(v, result)
    IN  IF o.kind = "page"
        THEN [resources |-> acc \o reply.resourceList,
              again |-> ~last_page(reply.pageInfo),
              exit |-> "complete"]
        ELSE [resources |-> IF v = "basic" THEN << >> ELSE acc,
              again |-> FALSE,
              exit |-> IF o.kind = "emptypage" THEN "emptybody" ELSE o.kind]

\* One turn of get_resources()'s loop on the page request's result: the
\* list so far, whether another page is requested, and how the loop is left.
get_resources_turn(v, result, reply, acc) ==
    LET o == page_outcome(v, result)
    IN  IF o.kind = "page"
        THEN [resources |-> acc \o reply.resourceList,
              again |-> ~last_page(reply.pageInfo),
              exit |-> "complete"]
        ELSE [resources |-> acc, again |-> FALSE,
              exit |-> IF o.kind = "emptypage" THEN "emptybody" ELSE o.kind]

\* The registry's counters after a collector's call ended with result: the
\* advanced variant counts in make_api_request(), the basic one in the
\* collector's own except clause under the collector's name (or not at all).
CountersAfterCall(v, name, counted_in_basic) ==
    IF v = "advanced"
    THEN /\ api_requests_total' =
                RequestsAfter(http.endpoint, http.method, http.result)
         /\ api_request_duration' =
                DurationAfter(http.endpoint, http.method, http.result)
         /\ collection_errors' =
                ErrorsAfter(http.endpoint, http.method, http.result)
    ELSE /\ UNCHANGED <<api_requests_total, api_request_duration>>
         /\ collection_errors' =
                IF counted_in_basic /\ page_outcome(v, http.result).kind = "error"
                THEN Inc(collection_errors,
                         <<name, page_outcome(v, http.result).err>>)
                ELSE collection_errors

\* ------------------------------------------------------------------- run()
\* What a scrape reads: the three gauges' series.
GaugeView ==
    [resource_count |-> resource_count, alert_count |-> alert_count,
     performance_metric |-> performance_metric]

NoView ==
    [resource_count |-> << >>, alert_count |-> << >>,
     performance_metric |-> << >>]

\* Mutant of run_except: no `except Exception` clause.
run_except_uncaught(exc) ==
    IF exc = "KeyboardInterrupt" THEN "stopped" ELSE "crashed"

\* run()'s try statement: where an exception raised inside it leads.
run_except(exc) == IF exc = "KeyboardInterrupt" THEN "stopped" ELSE "cooldown"

\* run(): start_http_server(), then the loop.
Run ==
    /\ pc = "constructed"
    /\ listening' = TRUE
    /\ pc' = "loop"
    /\ UNCHANGED <<variant, startVars, rejected_since, config, token, http,
                   faults, calls, ret, counterVars, cycleVars>>

\* update_metrics() is entered and get_resources() issues its first page
\* request; the upstream's contents are whatever they are by then.
UpdateMetricsBegin ==
    /\ pc = "loop"
    /\ cycle < MaxCycles
    /\ cycle' = cycle + 1
    /\ \E t \in 0..MaxTotal, ps \in 1..MaxPageSize, n \in 0..MaxAlerts :
          upstream' = [total |-> t, page_size |-> ps, alerts |-> n,
                       envelope |-> upstream.envelope]
    /\ params_page' = 0
    /\ page_requests' = 1
    /\ resources_exit' = "running"
    /\ resources' = << >>
    /\ http' = NewCall(variant, "GET", ResourcesPath)
    /\ pc' = "get_resources"
    /\ cycle_view' = GaugeView
    /\ scraped' = {}
    /\ UNCHANGED <<variant, startVars, rejected_since, config, token,
                   listening, faults, calls, ret, counterVars, idx,
                   resource_counts, walkVars, alerts, gaugeVars>>

\* get_resources(): one turn of its loop, on the page request's result.
\* The page index, the number of requests and the counters of the requests
\* are not told apart beyond MaxPages, where every page lies past the
\* inventory's end.
GetResourcesPage ==
    /\ pc = "get_resources"
    /\ http.st = "done"
    /\ IF page_requests < MaxPages
       THEN CountersAfterCall(variant, "resources", TRUE)
       ELSE UNCHANGED counterVars
    /\ LET turn == get_resources_turn(variant, http.result,
                                      PageReply(upstream, params_page),
                                      resources)
       IN  /\ resources' = turn.resources
           /\ IF turn.again
              THEN /\ params_page' = Min(params_page + 1, MaxPages)
                   /\ page_requests' = Min(page_requests + 1, MaxPages)
                   /\ http' = NewCall(variant, "GET", ResourcesPath)
                   /\ UNCHANGED <<pc, resources_exit, idx, resource_counts>>
              ELSE /\ resources_exit' = turn.exit
                   /\ http' = Idle
                   /\ pc' = "walk"
                   /\ idx' = 1
                   /\ resource_counts' = << >>
                   /\ UNCHANGED <<params_page, page_requests>>
    /\ UNCHANGED <<variant, startVars, rejected_since, config, token,
                   listening, faults, calls, ret, cycle, upstream, walkVars,
                   alerts, gaugeVars, scrapeVars>>

\* ------------------------------------------ extract_labels_from_resource
\* re.search(pattern, name): whether compiling the pattern raises re.error,
\* whether it matches, how many groups the pattern has and what the first
\* one captured.
re_search(pattern, name) ==
    LET miss == [raises |-> FALSE, match |-> FALSE, groups |-> 0,
                 group1 |-> ""]
        hit(n, text) == [raises |-> FALSE, match |-> TRUE, groups |-> n,
                         group1 |-> text]
    IN  CASE pattern = BadPattern -> [miss EXCEPT !.raises = TRUE]
          [] pattern = VmPattern /\ name = "vm-42" -> hit(1, "42")
          [] pattern = VmPattern /\ name = "vm-7" -> hit(1, "7")
          [] pattern = HostPattern /\ name = "host-1" -> hit(1, "1")
          [] pattern = NoGroupPattern /\ name \in {"vm-42", "vm-7"} ->
                hit(0, "")
          [] OTHER -> miss

\* Mutant of extract_labels: the try statement encloses the loop, so the
\* first pattern that raises ends it.
RECURSIVE extract_labels_abort(_, _, _, _)
extract_labels_abort(order, patterns, name, labels) ==
    IF order = << >> THEN labels
    ELSE LET found == re_search(patterns[Head(order)], name)
         IN  IF found.raises \/ (found.match /\ found.groups < 1)
             THEN labels
             ELSE extract_labels_abort(
                      Tail(order), patterns, name,
                      IF found.match
                      THEN update(labels,
                                  [l \in {Head(order)} |-> found.group1])
                      ELSE labels)

\* The loop of extract_labels_from_resource() over patterns.items() taken in
\* the given order: re.error and the IndexError of match.group(1) are caught
\* inside the loop.
RECURSIVE extract_labels(_, _, _, _)
extract_labels(order, patterns, name, labels) ==
    IF order = << >> THEN labels
    ELSE LET found == re_search(patterns[Head(order)], name)
         IN  extract_labels(
                 Tail(order), patterns, name,
                 IF ~found.raises /\ found.match /\ found.groups >= 1
                 THEN update(labels, [l \in {Head(order)} |-> found.group1])
                 ELSE labels)

\* The orders in which a dict's keys can be iterated.
Orders(keys) ==
    {order \in [1..Cardinality(keys) -> keys] :
        \A i, j \in 1..Cardinality(keys) : order[i] = order[j] => i = j}

\* The order of patterns.items() (that of the YAML document) is one of them.
extract_labels_from_resource(cfg, resource) ==
    extract_labels(CHOOSE order \in Orders(DOMAIN cfg.resource_patterns) : TRUE,
                   cfg.resource_patterns, resource.name, << >>)

\* ---------------------------------------------------------- update_metrics
\* seq[:n] of Python.
py_slice_to(seq, n) ==
    IF n >= 0 THEN SubSeq(seq, 1, Min(n, Len(seq)))
    ELSE SubSeq(seq, 1, Max(0, Len(seq) + n))

\* Mutant of detailed_types: datastores are walked for stats too.
detailed_types_wide(v, cfg) ==
    {"VirtualMachine", "HostSystem", "ClusterComputeResource", "Datastore"}

detailed_types(v, cfg) ==
    IF v = "advanced" THEN cfg.detailed_resource_types
    ELSE {"VirtualMachine", "HostSystem", "ClusterComputeResource"}

max_stats(v, cfg) ==
    IF v = "advanced" THEN cfg.max_stats_per_resource ELSE 10

\* The label names performance_metric is declared with in setup_metrics().
performance_labelnames(v, cfg) ==
    IF v = "advanced"
    THEN {"resource_id", "resource_name", "resource_type", "metric_name", "unit"}
         \cup DOMAIN cfg.static
    ELSE {"resource_id", "resource_name", "metric_name", "unit"}

\* The labels update_metrics() passes for one sample of one resource.
performance_labels(v, cfg, resource, stat) ==
    IF v = "advanced"
    THEN update(update([resource_id |-> resource.identifier,
                        resource_name |-> resource.name,
                        resource_type |-> resource.resourceKindKey,
                        metric_name |-> stat.key,
                        unit |-> stat.unit],
                       cfg.static),
                extract_labels_from_resource(cfg, resource))
    ELSE [resource_id |-> resource.identifier,
          resource_name |-> resource.name,
          metric_name |-> stat.key,
          unit |-> stat.unit]

\* Gauge.labels(**labels).set(value); labels() raises ValueError unless the
\* names given are exactly the declared ones.
set_gauge(gauge, labels, value) ==
    [k \in DOMAIN gauge \cup {labels} |->
        IF k = labels THEN value ELSE gauge[k]]

\* Mutant of set_performance: values[0] for values[-1].
RECURSIVE set_performance_first(_, _, _, _, _)
set_performance_first(gauge, v, cfg, resource, samples) ==
    IF samples = << >> THEN [raised |-> FALSE, gauge |-> gauge]
    ELSE LET stat == Head(samples)
             labels == performance_labels(v, cfg, resource, stat)
         IN  IF stat.data = << >>
             THEN set_performance_first(gauge, v, cfg, resource,
                                        Tail(samples))
             ELSE IF DOMAIN labels # performance_labelnames(v, cfg)
             THEN [raised |-> TRUE, gauge |-> gauge]
             ELSE set_performance_first(
                      set_gauge(gauge, labels, stat.data[1]),
                      v, cfg, resource, Tail(samples))

\* The loop over stats[:max_stats] for one resource: the gauge afterwards,
\* and whether labels() raised on the way.
RECURSIVE set_performance(_, _, _, _, _)
set_performance(gauge, v, cfg, resource, samples) ==
    IF samples = << >> THEN [raised |-> FALSE, gauge |-> gauge]
    ELSE LET stat == Head(samples)
             labels == performance_labels(v, cfg, resource, stat)
         IN  IF stat.data = << >>
             THEN set_performance(gauge, v, cfg, resource, Tail(samples))
             ELSE IF DOMAIN labels # performance_labelnames(v, cfg)
             THEN [raised |-> TRUE, gauge |-> gauge]
             ELSE set_performance(
                      set_gauge(gauge, labels, stat.data[Len(stat.data)]),
                      v, cfg, resource, Tail(samples))

\* Mutant of set_counts: inc(count) for set(count).
set_counts_accumulate(gauge, counts) ==
    [k \in DOMAIN gauge \cup DOMAIN counts |->
        IF k \in DOMAIN counts
        THEN (IF k \in DOMAIN gauge THEN gauge[k] ELSE 0) + counts[k]
        ELSE gauge[k]]

\* Mutant of set_counts: the gauge is cleared before the counts are set.
set_counts_clearing(gauge, counts) ==
    [k \in DOMAIN counts |-> counts[k]]

\* for key, count in counts.items(): gauge.labels(...).set(count)
set_counts(gauge, counts) ==
    [k \in DOMAIN gauge \cup DOMAIN counts |->
        IF k \in DOMAIN counts THEN counts[k] ELSE gauge[k]]

\* counts[key] = counts.get(key, 0) + 1 over a list of keys.
RECURSIVE count_keys(_)
count_keys(keys) ==
    IF keys = << >> THEN << >>
    ELSE Inc(count_keys(Tail(keys)), Head(keys))

resource_key(resource) == <<resource.resourceKindKey, resource.adapterKindKey>>
alert_key(alert) == <<alert.alertLevel, alert.status>>

\* The locals of update_metrics() and of the collectors are gone once
\* update_metrics() has returned or raised, and what the upstream holds is
\* open again until the next cycle reads it.
LocalsGone ==
    /\ upstream' = [Unobserved EXCEPT !.envelope = upstream.envelope]
    /\ params_page' = 0
    /\ page_requests' = 0
    /\ resources_exit' = ""
    /\ resources' = << >>
    /\ idx' = 0
    /\ resource_counts' = << >>
    /\ stats_requests' = << >>
    /\ stats' = << >>
    /\ extra_labels' = << >>
    /\ alerts' = << >>

\* update_metrics(): one turn of the walk over the fetched resources, up to
\* the stats request of a resource of a detailed type.
WalkResource ==
    /\ pc = "walk"
    /\ idx <= Len(resources)
    /\ LET resource == Resource(resources[idx])
       IN  /\ resource_counts' = Inc(resource_counts, resource_key(resource))
           /\ IF /\ resource.resourceKindKey \in detailed_types(variant, config)
                 /\ resource.identifier # ""
              THEN /\ http' = NewCall(variant, "GET",
                                      StatsPath(resource.identifier))
                   /\ stats_requests' =
                          Append(stats_requests, resource.identifier)
                   /\ pc' = "get_resource_stats"
                   /\ idx' = idx
              ELSE /\ idx' = idx + 1
                   /\ UNCHANGED <<http, pc, stats_requests>>
    \* the previous resource's stats and labels are not read again
    /\ stats' = << >>
    /\ extra_labels' = << >>
    /\ UNCHANGED <<variant, startVars, rejected_since, config, token,
                   listening, faults, calls, ret, counterVars, cycle, upstream,
                   params_page, page_requests, resources_exit, resources,
                   alerts, gaugeVars, scrapeVars>>

\* get_resource_stats() returns and the walk sets the resource's performance
\* series; a ValueError of labels() leaves update_metrics() and is caught by
\* run(), which logs it and sleeps 60 seconds.
StatsReturn ==
    /\ pc = "get_resource_stats"
    /\ http.st = "done"
    /\ CountersAfterCall(variant, "stats", FALSE)
    /\ http' = Idle
    /\ \E values \in StatReplies :
        LET stats_ == IF page_outcome(variant, http.result).kind = "page"
                      THEN values ELSE << >>
            done == set_performance(performance_metric, variant, config,
                                    Resource(resources[idx]),
                                    py_slice_to(stats_, max_stats(variant, config)))
        IN  /\ performance_metric' = done.gauge
            /\ IF done.raised
               THEN /\ pc' = run_except("ValueError")
                    /\ LocalsGone
               ELSE /\ pc' = "walk"
                    /\ idx' = idx + 1
                    /\ stats' = stats_
                    /\ extra_labels' =
                          IF variant = "advanced"
                          THEN extract_labels_from_resource(
                                   config, Resource(resources[idx]))
                          ELSE << >>
                    /\ UNCHANGED <<upstream, params_page, page_requests,
                                   resources_exit, resources, resource_counts,
                                   stats_requests, alerts>>
    /\ UNCHANGED <<variant, startVars, rejected_since, config, token,
                   listening, faults, calls, ret, cycle, resource_count,
                   alert_count, scrapeVars>>

\* update_metrics(): the walk is over; the resource counts are set and
\* get_alerts() issues its request.
SetResourceCounts ==
    /\ pc = "walk"
    /\ idx > Len(resources)
    /\ resource_count' = set_counts(resource_count, resource_counts)
    /\ http' = NewCall(variant, "GET", AlertsPath)
    /\ pc' = "get_alerts"
    /\ UNCHANGED <<variant, startVars, rejected_since, config, token,
                   listening, faults, calls, ret, counterVars, cycle, upstream,
                   localVars, alert_count, performance_metric, scrapeVars>>

\* get_alerts() returns; the alert counts are set and update_metrics() is
\* at its last line.
AlertsReturn ==
    /\ pc = "get_alerts"
    /\ http.st = "done"
    /\ CountersAfterCall(variant, "alerts", TRUE)
    /\ http' = Idle
    /\ alerts' = IF page_outcome(variant, http.result).kind = "page"
                 THEN [j \in 1..upstream.alerts |-> j] ELSE << >>
    /\ alert_count' =
          set_counts(alert_count,
                     count_keys([j \in 1..Len(alerts') |->
                                    alert_key(Alert(alerts'[j]))]))
    /\ pc' = "collected"
    /\ UNCHANGED <<variant, startVars, rejected_since, config, token,
                   listening, faults, calls, ret, cycle, upstream, params_page,
                   page_requests, resources_exit, resources, idx,
                   resource_counts, walkVars, resource_count,
                   performance_metric, scrapeVars>>

\* run(): update_metrics() has returned; time.sleep(self.interval).
SleepInterval ==
    /\ pc = "collected"
    /\ pc' = "sleep"
    /\ LocalsGone
    /\ cycle_view' = NoView
    /\ scraped' = {}
    /\ UNCHANGED <<variant, startVars, rejected_since, config, token,
                   listening, http, faults, calls, ret, counterVars, cycle,
                   gaugeVars>>

\* run(): either sleep is over and the loop turns.
WakeUp ==
    /\ pc \in {"sleep", "cooldown"}
    /\ pc' = "loop"
    /\ cycle_view' = NoView
    /\ scraped' = {}
    /\ UNCHANGED <<variant, startVars, rejected_since, config, token,
                   listening, http, faults, calls, ret, counterVars, cycle,
                   upstream, localVars, gaugeVars>>

InLoop ==
    pc \in {"loop", "get_resources", "walk", "get_resource_stats",
            "get_alerts", "collected", "sleep", "cooldown"}

\* run(): a KeyboardInterrupt ends the loop (caught inside the try, or
\* uncaught during the 60-second sleep of the except clause) and the
\* process with it.
KeyboardInterrupt ==
    /\ InLoop
    /\ pc' = run_except("KeyboardInterrupt")
    /\ listening' = FALSE
    /\ http' = Idle
    /\ LocalsGone
    /\ cycle_view' = NoView
    /\ scraped' = {}
    /\ UNCHANGED <<variant, startVars, rejected_since, config, token, faults,
                   calls, ret, counterVars, cycle, gaugeVars>>

\* The scrape thread of start_http_server() answers a request with the
\* registry as it finds it.
Scrape ==
    /\ listening
    /\ pc \in {"get_resources", "walk", "get_resource_stats", "get_alerts"}
    /\ Cardinality(scraped) < MaxScrapes
    /\ scraped' = scraped \cup {GaugeView}
    /\ UNCHANGED <<variant, startVars, rejected_since, config, pc, token,
                   listening, http, faults, calls, ret, counterVars, cycle,
                   upstream, localVars, gaugeVars, cycle_view>>

\* ------------------------------------------------------------------- specs
\* The command line of the runs that start after construction's checks.
RunArgs ==
    [f \in {"host", "password", "verify_ssl"} |->
        CASE f = "host" -> "cli-host"
          [] f = "password" -> "cli-pw"
          [] OTHER -> "False"]

\* The process as main() is entered; spent is how many of the calls that
\* may meet a failure have met one already, choices the variants and the
\* configurations they may run with, envelopes the ways in which the upstream
\* may fill the pagination envelope.
InitWith(spent, choices, envelopes) ==
    /\ \E choice \in choices :
          /\ variant = choice[1]
          /\ config = choice[2]
    /\ pc = "main"
    /\ token = ""
    /\ listening = FALSE
    /\ http = Idle
    /\ faults = spent
    /\ rejected_since = -1
    /\ calls = 0
    /\ ret = "None"
    /\ api_requests_total = << >>
    /\ api_request_duration = << >>
    /\ collection_errors = << >>
    /\ kwargs = RunArgs
    /\ file_config = NoFile
    /\ environ = ""
    /\ resolved = IF variant = "advanced" THEN load_config(NoFile, RunArgs)
                  ELSE NotLoaded
    /\ password = password_of(variant, resolved, RunArgs, "")
    /\ cycle = 0
    /\ \E e \in envelopes : upstream = [Unobserved EXCEPT !.envelope = e]
    /\ params_page = 0
    /\ page_requests = 0
    /\ resources_exit = ""
    /\ resources = << >>
    /\ idx = 0
    /\ resource_counts = << >>
    /\ stats_requests = << >>
    /\ stats = << >>
    /\ extra_labels = << >>
    /\ alerts = << >>
    /\ resource_count = << >>
    /\ alert_count = << >>
    /\ performance_metric = << >>
    /\ cycle_view = NoView
    /\ scraped = {}

\* The variant that runs, with a configuration of its own.
Choices == UNION {{<<v, c>> : c \in Configs(v)} : v \in Variants}

Init == InitWith(0, Choices, {"exact"})

ClientNext ==
    \/ BeginAuthenticate
    \/ HttpAttempt
    \/ AuthenticateReturn
    \/ ApiCall
    \/ ApiReturn

ClientSpec == Init /\ [][ClientNext]_vars

Next ==
    \/ BeginAuthenticate
    \/ HttpAttempt
    \/ AuthenticateReturn
    \/ Run
    \/ UpdateMetricsBegin
    \/ GetResourcesPage
    \/ WalkResource
    \/ StatsReturn
    \/ SetResourceCounts
    \/ AlertsReturn
    \/ SleepInterval
    \/ WakeUp
    \/ KeyboardInterrupt

Spec == Init /\ [][Next]_vars

\* The process from its command line, file and environment on, up to the
\* end of construction.
ConfigInit ==
    /\ variant \in Variants
    /\ pc = "parse_args"
    /\ kwargs \in Kwargs(variant)
    /\ file_config \in Files(variant)
    /\ environ \in {"", "env-pw"}
    /\ resolved = NotLoaded
    /\ password = ""
    /\ config = DefaultConfig
    /\ token = ""
    /\ listening = FALSE
    /\ http = Idle
    /\ faults = 0
    /\ rejected_since = -1
    /\ calls = 0
    /\ ret = "None"
    /\ api_requests_total = << >>
    /\ api_request_duration = << >>
    /\ collection_errors = << >>
    /\ cycle = 0
    /\ upstream = Unobserved
    /\ params_page = 0
    /\ page_requests = 0
    /\ resources_exit = ""
    /\ resources = << >>
    /\ idx = 0
    /\ resource_counts = << >>
    /\ stats_requests = << >>
    /\ stats = << >>
    /\ extra_labels = << >>
    /\ alerts = << >>
    /\ resource_count = << >>
    /\ alert_count = << >>
    /\ performance_metric = << >>
    /\ cycle_view = NoView
    /\ scraped = {}

ConfigNext ==
    \/ LoadConfig
    \/ CheckPassword
    \/ BeginAuthenticate
    \/ HttpAttempt
    \/ AuthenticateReturn

ConfigSpec == ConfigInit /\ [][ConfigNext]_vars

\* A run in which the network and the upstream answer every request.
QuietInit == InitWith(MaxFaults, Choices, {"exact"})

\* Such a run under each of the configurations a file can give.
WalkInit ==
    InitWith(MaxFaults,
             UNION {{<<v, c>> : c \in WalkConfigs(v)} : v \in Variants},
             {"exact"})

WalkSpec == WalkInit /\ [][Next]_vars

\* run() with the scrape thread beside it.
ScrapeNext == Next \/ Scrape

ScrapeSpec == QuietInit /\ [][ScrapeNext]_vars

\* The sleeps of run() end and its loop turns.
LiveSpec ==
    Init /\ [][Next]_vars /\ WF_vars(WakeUp) /\ WF_vars(UpdateMetricsBegin)

\* The exporter up to the end of a cycle's get_resources(), against an
\* upstream that fills the pagination envelope in one of the ways of
\* Envelopes; a request in flight ends and the loop takes its next turn.
PageInit == InitWith(0, Choices, Envelopes)

PageNext ==
    \/ BeginAuthenticate
    \/ HttpAttempt
    \/ AuthenticateReturn
    \/ Run
    \/ UpdateMetricsBegin
    \/ GetResourcesPage

PageSpec ==
    /\ PageInit
    /\ [][PageNext]_vars
    /\ WF_vars(HttpAttempt)
    /\ WF_vars(GetResourcesPage)

\* A run whose token the upstream may stop accepting at any moment; the
\* main thread goes on from statement to statement and its sleeps end.
RejectNext == Next \/ TokenRejected

Collecting ==
    \/ HttpAttempt
    \/ GetResourcesPage
    \/ WalkResource
    \/ StatsReturn
    \/ SetResourceCounts
    \/ AlertsReturn
    \/ SleepInterval

RejectSpec ==
    /\ QuietInit
    /\ [][RejectNext]_vars
    /\ WF_vars(Collecting)
    /\ WF_vars(WakeUp)
    /\ WF_vars(UpdateMetricsBegin)

\* ================================================================== claims
AfterGetResources ==
    pc \in {"walk", "get_resource_stats", "get_alerts", "collected"}

\* How many of the fetched resources (alerts) carry a key.
Fetched(key) ==
    Cardinality({i \in 1..Len(resources) :
                    resource_key(Resource(resources[i])) = key})

FetchedAlerts(key) ==
    Cardinality({j \in 1..Len(alerts) : alert_key(Alert(alerts[j])) = key})

Ceil(a, b) == (a + b - 1) \div b

VmKey == <<"VirtualMachine", "VMWARE">>
CriticalKey == <<"CRITICAL", "ACTIVE">>

\* A token acquisition that failed: a network error, a status outside 2xx,
\* or a 2xx body that holds no token.
AuthFailed(result) ==
    \/ result.kind = "raised"
    \/ /\ result.kind = "response"
       /\ (result.status \notin 200..299 \/ result.body # "json")

\* C1: the listener is started, and a collection cycle runs, only once
\* authenticate() has stored a token; after every failed token acquisition
\* (network error, non-2xx status, 2xx body without a token) the process has
\* left the constructor by the exception, with no listener and no cycle.
C1_ListenOnlyAfterAuth ==
    /\ (listening \/ cycle > 0 \/ InLoop \/ pc \in {"constructed", "stopped"})
          => token = "tok"
    /\ (/\ pc \notin {"main", "authenticate"}
        /\ http.endpoint = AuthPath
        /\ AuthFailed(http.result))
          => (pc = "aborted" /\ ~listening /\ cycle = 0)

C1_Witness ==
    /\ pc = "aborted"
    /\ http.endpoint = AuthPath
    /\ http.result.status = 401

\* C2: an Exception raised by update_metrics() never ends run(): the loop is
\* in its 60-second sleep, from which (while cycles may still start) another
\* cycle begins unless a KeyboardInterrupt stops the process; the process is
\* never ended by the exception itself.
C2_LoopSurvivesCycleError ==
    /\ [](pc # "crashed")
    /\ ((pc = "cooldown" /\ cycle < MaxCycles)
            ~> (pc = "get_resources" \/ pc = "stopped"))

C2_Witness ==
    /\ pc = "cooldown"
    /\ cycle = 1

\* C3: every view the scrape thread served while a cycle ran is either the
\* gauges as the cycle found them or the gauges as the cycle left them
\* (when it returned, or when it raised), never a state in between.
C3_ScrapeSeesNoPartialUpdate ==
    pc \in {"collected", "cooldown"}
        => \A view \in scraped : view = cycle_view \/ view = GaugeView

\* C4: once a cycle has set its resource counts, the series of every
\* (kind, adapter-kind) pair it fetched reads the number fetched in this
\* cycle, whatever the series read before; likewise the alert counts per
\* (criticality, status) pair once they are set.
C4_CountsAreReplaced ==
    /\ pc \in {"get_alerts", "collected"} =>
          \A i \in 1..Len(resources) :
              LET key == resource_key(Resource(resources[i]))
              IN  /\ key \in DOMAIN resource_count
                  /\ resource_count[key] = Fetched(key)
    /\ pc = "collected" =>
          \A j \in 1..Len(alerts) :
              LET key == alert_key(Alert(alerts[j]))
              IN  /\ key \in DOMAIN alert_count
                  /\ alert_count[key] = FetchedAlerts(key)

C4_Witness ==
    /\ pc = "collected"
    /\ VmKey \in DOMAIN cycle_view.resource_count
    /\ cycle_view.resource_count[VmKey] = 1
    /\ resource_count[VmKey] = 2
    /\ CriticalKey \in DOMAIN cycle_view.alert_count
    /\ Len(alerts) = 1

C6_PartialPagesKept ==
    resources_exit \in {"nodata", "error"} =>
        /\ AfterGetResources
        /\ page_requests = params_page + 1
        /\ resources = [i \in 1..(params_page * upstream.page_size) |-> i]
        /\ pc \in {"get_alerts", "collected"} =>
              \A key \in {resource_key(Resource(i)) : i \in 1..MaxTotal} :
                  IF Fetched(key) > 0
                  THEN /\ key \in DOMAIN resource_count
                       /\ resource_count[key] = Fetched(key)
                  ELSE key \in DOMAIN resource_count =>
                          resource_count[key] = cycle_view.resource_count[key]

C6_Witness ==
    /\ resources_exit \in {"nodata", "error"}
    /\ params_page >= 1
    /\ Len(resources) >= 1
    /\ Len(resources) < upstream.total
    /\ pc = "get_alerts"

\* A make_api_request() call that did not end in a 2xx response with a JSON
\* body.
CallFailed ==
    \/ http.method \notin {"GET", "POST"}
    \/ http.result.kind = "raised"
    \/ http.result.status \notin 200..299
    \/ http.result.body = "garbage"

ApiReturns == pc = "make_api_request" /\ pc' # pc

\* C7: make_api_request() never raises; a call that ends in a network error,
\* retry exhaustion, a non-2xx status, a body that is not JSON or an
\* unsupported method returns None after one increment of collection_errors,
\* and what is returned otherwise is the parsed body of a 2xx response.
C7_NeverRaises ==
    [][ApiReturns =>
        /\ pc' = "constructed"
        /\ CallFailed =>
              /\ ret' = "None"
              /\ Total(collection_errors') = Total(collection_errors) + 1
        /\ ret' # "None" =>
              /\ http.result.kind = "response"
              /\ http.result.status \in 200..299
              /\ ret' = http.result.body
              /\ collection_errors' = collection_errors]_vars

C7_Witness ==
    /\ pc = "constructed"
    /\ calls = 1
    /\ http.result.exc = "RetryError"
    /\ ret = "None"
    /\ Total(collection_errors) = 1

\* C8 as stated: a GET call is sent to the upstream at most 3 times.
C8_AtMostThreeSends ==
    http.method = "GET" => http.sent <= 3

\* C8 as amended: a GET call is sent at most 4 times, the first attempt and
\* the 3 retries of Retry(total=3); the fourth attempt ends the call, as
\* failed if it fails too.
C8_AtMostFourSends ==
    http.method = "GET" =>
        /\ http.sent <= http.attempts
        /\ http.attempts <= RetryTotal + 1
        /\ http.attempts = RetryTotal + 1 => http.st = "done"
        /\ (http.st = "done" /\ http.faulty /\ http.attempts = RetryTotal + 1
              /\ http.result.kind = "response")
                => ~is_retry(Session(variant), "GET", http.result.status)

C8_Witness ==
    /\ http.method = "GET"
    /\ http.st = "done"
    /\ http.sent = 4
    /\ http.result.exc = "RetryError"

\* C9 as stated: the session tries the token-acquisition POST exactly once
\* per authenticate() call, whatever the outcome.
C9_PostTriedOnce ==
    (http.endpoint = AuthPath /\ http.st = "done") => http.attempts = 1

\* C9 as amended: the upstream receives the POST at most once, and once it
\* was sent the call ends whatever comes back (read error, 503, any status);
\* only an attempt that could not connect, which sent nothing, is tried
\* again, up to the 3 retries of the session.
C9_PostSentAtMostOnce ==
    http.method = "POST" =>
        /\ http.sent <= 1
        /\ http.sent = 1 => http.st = "done"
        /\ http.attempts <= RetryTotal + 1

C9_Witness ==
    /\ http.endpoint = AuthPath
    /\ http.st = "done"
    /\ http.result.status = 503
    /\ http.sent = 1
    /\ pc = "aborted"

\* C10: every make_api_request() call with a supported method adds exactly
\* one to the request counter and one observation to the latency histogram,
\* whatever its outcome.
C10_EveryCallCounted ==
    [][(ApiReturns /\ http.method \in {"GET", "POST"}) =>
        /\ Total(api_requests_total') = Total(api_requests_total) + 1
        /\ Total(api_request_duration') = Total(api_request_duration) + 1]_vars

\* The key paths of a YAML value, the empty path included.
RECURSIVE Paths(_)
Paths(tree) ==
    IF tree.tag # "map" THEN {<< >>}
    ELSE {<< >>} \cup
         UNION {{<<key>> \o path : path \in Paths(tree.items[key])} :
                    key \in DOMAIN tree.items}

RECURSIVE HasPath(_, _)
HasPath(tree, path) ==
    \/ path = << >>
    \/ /\ tree.tag = "map"
       /\ Head(path) \in DOMAIN tree.items
       /\ HasPath(tree.items[Head(path)], Tail(path))

RECURSIVE At(_, _)
At(tree, path) ==
    IF path = << >> THEN tree ELSE At(tree.items[Head(path)], Tail(path))

\* Where load_config() keeps an individually-settable field.
FieldPath(field) ==
    IF field \in {"port", "interval", "log_level"} THEN <<"exporter", field>>
    ELSE <<"vmware_aria", field>>

\* The fields the command line overrides: those given a value that is not
\* empty, and the verify_ssl flag when it is set.
Overridden ==
    {field \in DOMAIN kwargs :
        /\ kwargs[field] # ""
        /\ field = "verify_ssl" => kwargs[field] = "True"}

\* C11: once the configuration is loaded, every individually-settable field
\* that both the command line and the file supply holds the command line's
\* value.
C11_OverridesWin ==
    (variant = "advanced" /\ resolved.tag = "map") =>
        \A field \in Overridden :
            HasPath(file_config, FieldPath(field)) =>
                At(resolved, FieldPath(field)).value = kwargs[field]

\* C12 as stated: every key path of the defaults that is not a key path of
\* the file is a key path of the merged configuration, with the default's
\* value.
C12_OmittedKeysKept ==
    (variant = "advanced" /\ resolved.tag = "map") =>
        \A path \in Paths(default_config(kwargs)) :
            ~HasPath(file_config, path) =>
                /\ HasPath(resolved, path)
                /\ At(resolved, path) = At(default_config(kwargs), path)

\* The file holds something that is not a mapping at a proper prefix of the
\* path, inside the document.
Shadowed(file, path) ==
    \E n \in 1..(Len(path) - 1) :
        /\ HasPath(file, SubSeq(path, 1, n))
        /\ At(file, SubSeq(path, 1, n)).tag # "map"

\* C12 as amended: the default's key paths that the file omits are kept with
\* their default values unless the file puts a non-mapping value where the
\* defaults hold the enclosing mapping; and every non-mapping value of a
\* file that is a mapping is the merged configuration's value at its path.
C12_OmittedKeysKeptUnlessShadowed ==
    (variant = "advanced" /\ resolved.tag = "map") =>
        /\ \A path \in Paths(default_config(kwargs)) :
              (~HasPath(file_config, path) /\ ~Shadowed(file_config, path)) =>
                  /\ HasPath(resolved, path)
                  /\ At(resolved, path) = At(default_config(kwargs), path)
        /\ file_config.tag = "map" =>
              \A path \in Paths(file_config) :
                  At(file_config, path).tag # "map" =>
                      /\ HasPath(resolved, path)
                      /\ At(resolved, path) = At(file_config, path)

C12_Witness ==
    /\ pc = "__init__"
    /\ HasPath(file_config, <<"metrics", "timeouts", "resources">>)
    /\ At(resolved, <<"metrics", "timeouts", "resources">>).value = "10"
    /\ At(resolved, <<"metrics", "timeouts", "alerts">>).value = "30"
    /\ At(resolved, <<"metrics", "max_stats_per_resource">>).value = "10"

\* Neither the command line, nor the file, nor the environment holds a
\* password that is not empty.
NoPasswordGiven ==
    /\ get(kwargs, "password", "") = ""
    /\ HasPath(file_config, <<"vmware_aria", "password">>) =>
          At(file_config, <<"vmware_aria", "password">>).value = ""
    /\ environ = ""

\* C13: when the resolved password is empty (as it is when no source gives
\* one) the process ends in the configuration error, and then no session
\* call has been made, nothing is counted, no token is held and no cycle has
\* run; whenever authenticate() has been entered the password is not empty.
C13_NoEmptyPassword ==
    /\ (pc \notin {"parse_args", "__init__"}
          /\ (NoPasswordGiven \/ password = "")) => pc = "config_error"
    /\ pc = "config_error" =>
          /\ http = Idle
          /\ token = ""
          /\ ~listening
          /\ cycle = 0
          /\ api_requests_total = << >>
          /\ collection_errors = << >>
    /\ (http # Idle \/ pc \in {"authenticate", "constructed", "aborted"}) =>
          password # ""

C13_Witness ==
    /\ pc = "config_error"
    /\ variant = "advanced"
    /\ file_config.tag = "map"
    /\ environ = ""

\* The allow-list and the limit of the running variant, as its source or
\* its configuration gives them.
AllowList ==
    IF variant = "advanced" THEN config.detailed_resource_types
    ELSE {"VirtualMachine", "HostSystem", "ClusterComputeResource"}

Limit == IF variant = "advanced" THEN config.max_stats_per_resource ELSE 10

\* The walk has just dealt with a resource of a detailed type: its stats
\* were fetched and its series set without an exception.
Walked ==
    /\ pc = "walk"
    /\ idx > 1
    /\ Resource(resources[idx - 1]).resourceKindKey \in AllowList

\* C14: every stats request of a cycle is for a fetched resource whose kind
\* is in the allow-list, there are no more of them than such resources, and
\* the request in flight is for the resource the walk is at.
C14_StatsOnlyForDetailedTypes ==
    /\ \A k \in 1..Len(stats_requests) :
          \E i \in 1..Len(resources) :
              /\ Resource(resources[i]).identifier = stats_requests[k]
              /\ Resource(resources[i]).resourceKindKey \in AllowList
    /\ Len(stats_requests) <=
          Cardinality({i \in 1..Len(resources) :
                          Resource(resources[i]).resourceKindKey \in AllowList})
    /\ pc = "get_resource_stats" =>
          /\ Resource(resources[idx]).resourceKindKey \in AllowList
          /\ http.endpoint = StatsPath(Resource(resources[idx]).identifier)

C14_Witness ==
    /\ pc = "get_alerts"
    /\ config = DatastoreConfig
    /\ variant = "advanced"
    /\ Len(resources) = 3
    /\ stats_requests = <<"id2">>

\* C15: after the stats of a resource were consumed, the series of every
\* consumed sample that has data points reads the sample's last point, and
\* the series of a sample without data points is as the cycle found it (not
\* present if it was not present).
C15_LastPointSurfaced ==
    Walked =>
        \A k \in 1..Len(stats) :
            LET labels == performance_labels(variant, config,
                                             Resource(resources[idx - 1]),
                                             stats[k])
                data == stats[k].data
            IN  IF data = << >>
                THEN /\ labels \in DOMAIN performance_metric
                          <=> labels \in DOMAIN cycle_view.performance_metric
                     /\ labels \in DOMAIN performance_metric =>
                          performance_metric[labels] =
                              cycle_view.performance_metric[labels]
                ELSE k <= Len(py_slice_to(stats, Limit)) =>
                        /\ labels \in DOMAIN performance_metric
                        /\ performance_metric[labels] = data[Len(data)]

C15_Witness ==
    /\ Walked
    /\ Len(stats) = 2
    /\ Len(stats[1].data) = 2
    /\ \E labels \in DOMAIN performance_metric :
          /\ labels.metric_name = stats[1].key
          /\ performance_metric[labels] = 2

\* C16: in the first cycle, whose registry starts empty, no fetched resource
\* has more performance series than the limit allows (none when the limit
\* is zero or negative).
C16_AtMostMaxStatsSeries ==
    (cycle = 1 /\ AfterGetResources) =>
        \A i \in 1..Len(resources) :
            Cardinality({labels \in DOMAIN performance_metric :
                            labels.resource_id =
                                Resource(resources[i]).identifier})
                <= Max(0, Limit)

\* The labels the patterns yield for a name, pattern by pattern.
Yielded(patterns, name) ==
    LET yields(l) == LET found == re_search(patterns[l], name)
                     IN  ~found.raises /\ found.match /\ found.groups >= 1
    IN  [l \in {l \in DOMAIN patterns : yields(l)} |->
            re_search(patterns[l], name).group1]

\* C17: the labels derived for a resource are exactly those of the patterns
\* that match its name with a capturing group, each with the captured text;
\* a pattern that does not match, has no group or does not compile gives no
\* label and stops no other pattern; every order of the patterns gives the
\* same labels.
C17_DerivedLabels ==
    (Walked /\ variant = "advanced") =>
        LET patterns == config.resource_patterns
            name == Resource(resources[idx - 1]).name
        IN  /\ extra_labels = Yielded(patterns, name)
            /\ \A order \in Orders(DOMAIN patterns) :
                  extract_labels(order, patterns, name, << >>) = extra_labels

C17_Witness ==
    /\ Walked
    /\ variant = "advanced"
    /\ config = MixedPatternConfig
    /\ DOMAIN extra_labels = {"vm_id"}
    /\ extra_labels["vm_id"] = "42"

\* C18: in the advanced variant, when the stats of a resource have been
\* fetched the walk goes on, and every consumed sample with data points has
\* a series whose label names are the five base names, the static ones and
\* the derived ones, reading the sample's last point.
C18_DerivedLabelsAccepted ==
    [][(/\ variant = "advanced"
        /\ pc = "get_resource_stats"
        /\ pc' \in {"walk", "cooldown"}) =>
            /\ pc' = "walk"
            /\ \A k \in 1..Len(py_slice_to(stats', Limit)) :
                  stats'[k].data # << >> =>
                      \E labels \in DOMAIN performance_metric' :
                          /\ DOMAIN labels =
                                {"resource_id", "resource_name",
                                 "resource_type", "metric_name", "unit"}
                                \cup DOMAIN config.static
                                \cup DOMAIN extra_labels'
                          /\ labels.resource_id =
                                Resource(resources[idx]).identifier
                          /\ labels.metric_name = stats'[k].key
                          /\ performance_metric'[labels] =
                                stats'[k].data[Len(stats'[k].data)]]_vars

AlertsFailed ==
    /\ pc = "get_alerts"
    /\ http.st = "done"
    /\ \/ http.result.kind = "raised"
       \/ http.result.status \notin 200..299
       \/ http.result.body = "garbage"

\* C20: when the alerts request has failed, get_alerts() returns the empty
\* list, update_metrics() reaches its last line, no alert-count series is
\* touched, and the resource counts and performance series stay as the
\* cycle wrote them.
C20_AlertsFailureNotFatal ==
    [][(AlertsFailed /\ pc' \notin {"get_alerts", "stopped"}) =>
        /\ pc' = "collected"
        /\ alerts' = << >>
        /\ alert_count' = alert_count
        /\ resource_count' = resource_count
        /\ performance_metric' = performance_metric
        /\ \A i \in 1..Len(resources) :
              resource_count'[resource_key(Resource(resources[i]))]
                  = Fetched(resource_key(Resource(resources[i])))]_vars

C20_Witness ==
    /\ pc = "collected"
    /\ cycle = 1
    /\ upstream.alerts = 1
    /\ alerts = << >>
    /\ alert_count = << >>
    /\ \E key \in DOMAIN collection_errors : key[1] = "alerts"
    /\ Total(resource_count) = 2

\* ---------------------------------------------------------------- C21..C28
\* The stats request of the resource the walk is at ended in a network
\* error, a status outside 2xx or a body that is not JSON.
StatsFailed ==
    /\ pc = "get_resource_stats"
    /\ http.st = "done"
    /\ \/ http.result.kind = "raised"
       \/ http.result.status \notin 200..299
       \/ http.result.body = "garbage"

\* The fetched resources whose kind is in the allow-list, in list order.
Detailed(i) == Resource(i).resourceKindKey \in AllowList

DetailedIds ==
    LET sel == SelectSeq(resources, Detailed)
    IN  [k \in 1..Len(sel) |-> Resource(sel[k]).identifier]

\* C21: a failed stats request does not leave get_resource_stats(): the walk
\* goes on to the next resource with no sample and no performance series
\* set for the failed one; when the walk is over every resource of an
\* allow-listed kind has had its own stats request, and the resource counts
\* cover every fetched resource, the failed one included.
C21_StatsFailureSkipsResource ==
    /\ [][(StatsFailed /\ pc' \notin {"get_resource_stats", "stopped"}) =>
            /\ pc' = "walk"
            /\ idx' = idx + 1
            /\ stats' = << >>
            /\ performance_metric' = performance_metric
            /\ resources' = resources
            /\ resource_counts' = resource_counts]_vars
    /\ [](pc = "get_alerts" =>
            /\ stats_requests = DetailedIds
            /\ \A i \in 1..Len(resources) :
                  resource_count[resource_key(Resource(resources[i]))]
                      = Fetched(resource_key(Resource(resources[i]))))

\* Three resources were fetched in full, the stats request of one of the two
\* virtual machines failed, the other one's series were set, and both are
\* counted.
C21_Witness ==
    /\ pc = "get_alerts"
    /\ cycle = 1
    /\ variant = "advanced"
    /\ Len(resources) = 3
    /\ upstream.total = 3
    /\ collection_errors # << >>
    /\ stats_requests = <<Resource(1).identifier, Resource(3).identifier>>
    /\ performance_metric # << >>
    /\ \A key \in DOMAIN performance_metric :
          key.resource_id = Resource(3).identifier
    /\ resource_count[VmKey] = 2

\* update_metrics() is between its first request and its last line.
InCycle ==
    pc \in {"get_resources", "walk", "get_resource_stats", "get_alerts",
            "collected"}

\* The series of a gauge that a step may write: a resource-count series when
\* the walk is over and a fetched resource carries its key, an alert-count
\* series when a fetched alert carries its key, a performance series when
\* the stats of its resource have returned with a sample of its metric.
MayWriteResourceCount(key) == pc = "walk" /\ Fetched(key) > 0

MayWriteAlertCount(key) ==
    /\ pc = "get_alerts"
    /\ \E j \in 1..Len(alerts') : alert_key(Alert(alerts'[j])) = key

MayWritePerformance(key) ==
    /\ pc = "get_resource_stats"
    /\ key.resource_id = Resource(resources[idx]).identifier
    /\ pc' = "walk" => \E k \in 1..Len(stats') : stats'[k].key = key.metric_name

\* C22: no step removes a series, and a step changes a series only when the
\* cycle observed its key; so during a cycle every series that the registry
\* held when the cycle began is still there, and it holds the value it had
\* then unless the cycle fetched a resource (an alert) with its key or
\* requested the stats of its resource.
C22_UnobservedSeriesKept ==
    /\ [][/\ \A key \in DOMAIN resource_count :
                /\ key \in DOMAIN resource_count'
                /\ resource_count'[key] # resource_count[key]
                      => MayWriteResourceCount(key)
          /\ \A key \in DOMAIN alert_count :
                /\ key \in DOMAIN alert_count'
                /\ alert_count'[key] # alert_count[key]
                      => MayWriteAlertCount(key)
          /\ \A key \in DOMAIN performance_metric :
                /\ key \in DOMAIN performance_metric'
                /\ performance_metric'[key] # performance_metric[key]
                      => MayWritePerformance(key)]_vars
    /\ [](InCycle =>
            /\ \A key \in DOMAIN cycle_view.resource_count :
                  /\ key \in DOMAIN resource_count
                  /\ Fetched(key) = 0 =>
                        resource_count[key] = cycle_view.resource_count[key]
            /\ \A key \in DOMAIN cycle_view.alert_count :
                  /\ key \in DOMAIN alert_count
                  /\ FetchedAlerts(key) = 0 =>
                        alert_count[key] = cycle_view.alert_count[key]
            /\ \A key \in DOMAIN cycle_view.performance_metric :
                  /\ key \in DOMAIN performance_metric
                  /\ (\A k \in 1..Len(stats_requests) :
                         stats_requests[k] # key.resource_id) =>
                        performance_metric[key]
                            = cycle_view.performance_metric[key])

\* The second cycle fetched one virtual machine and one alert where the
\* first had fetched three resources: the Datastore count and the third
\* resource's performance series are as the first cycle left them, while
\* the VirtualMachine count was rewritten.
C22_Witness ==
    /\ pc = "collected"
    /\ cycle = 2
    /\ Len(resources) = 1
    /\ <<"Datastore", "VMWARE">> \in DOMAIN cycle_view.resource_count
    /\ resource_count[<<"Datastore", "VMWARE">>] = 1
    /\ cycle_view.resource_count[VmKey] = 2
    /\ resource_count[VmKey] = 1
    /\ \E key \in DOMAIN cycle_view.performance_metric :
          /\ key.resource_id = Resource(3).identifier
          /\ performance_metric[key] = cycle_view.performance_metric[key]

\* A cycle that began after the upstream had begun to reject the token is
\* running or over.
Later == rejected_since >= 0 /\ cycle > rejected_since

\* C23: authenticate() is entered from construction only and the token it
\* stored is never replaced, so no request of a cycle goes to the token
\* endpoint. Once the upstream rejects the token, every request of every
\* later cycle gives its collector no data, no step of such a cycle changes
\* a resource-count, alert-count or performance series or leaves the loop
\* through an exception, each such cycle reaches its last line, and run()
\* goes on to the next cycle for as long as it is not interrupted.
C23_StaleTokenCyclesForever ==
    /\ [][/\ pc' = "authenticate" => pc \in {"main", "authenticate"}
          /\ token # "" => token' = token
          /\ cycle >= 1 => http'.endpoint # AuthPath
          /\ Later =>
                /\ gaugeVars' = gaugeVars
                /\ pc' \notin {"crashed", "cooldown", "aborted"}]_vars
    /\ []((Later /\ InCycle) =>
            /\ resources = << >>
            /\ stats_requests = << >>
            /\ alerts = << >>)
    /\ (Later /\ pc = "get_resources") ~> (pc \in {"collected", "stopped"})
    /\ \A c \in 0..(MaxCycles - 1) :
          (rejected_since >= 0 /\ InLoop /\ cycle = c)
              ~> (cycle = c + 1 \/ pc = "stopped")

\* The first cycle set series; the token was rejected before the second
\* began, which ended with nothing fetched from an upstream that holds
\* three resources and an alert, and with every series as it found it.
C23_Witness ==
    /\ pc = "collected"
    /\ cycle = 2
    /\ rejected_since = 1
    /\ upstream.total = 3
    /\ upstream.alerts = 1
    /\ resources = << >>
    /\ alerts = << >>
    /\ Total(resource_count) = 2
    /\ performance_metric # << >>
    /\ GaugeView = cycle_view
    /\ token # ""

\* A fetch of the cycle is in flight or still to come.
Fetching ==
    pc \in {"get_resources", "walk", "get_resource_stats", "get_alerts"}

\* C24: every cycle fetches resources, then alerts, then stats, and only
\* then updates the registry: when the alerts request is issued no stats
\* request of the cycle has been issued yet, no resource-count, alert-count
\* or performance series differs from what the cycle found while a fetch is
\* in flight or still to come, and a cycle that reached its last line is
\* followed by the sleep of the configured interval.
C24_FetchAllThenUpdate ==
    [][/\ pc' = "get_alerts" => stats_requests' = << >>
       /\ Fetching' => GaugeView' = cycle_view'
       /\ (pc = "collected" /\ pc' # pc) => pc' \in {"sleep", "stopped"}]_vars

\* A collector's request (a resource page, the alerts, the stats of one
\* resource) has ended in a network error, a status outside 2xx or a body
\* that is not JSON, and the collector is about to return from it.
CollectorCallFailed ==
    /\ pc \in {"get_resources", "get_resource_stats", "get_alerts"}
    /\ http.st = "done"
    /\ \/ http.result.kind = "raised"
       \/ http.result.status \notin 200..299
       \/ http.result.body = "garbage"

\* C25: in both variants a collector's failed request adds exactly one to
\* the error counter, in one series, and the cycle goes on.
C25_FailureCountedOnce ==
    [][(CollectorCallFailed /\ pc' \notin {pc, "stopped"}) =>
        /\ Total(collection_errors') = Total(collection_errors) + 1
        /\ pc' \in {"walk", "get_alerts", "collected"}]_vars

\* C26: get_resources() returns, whatever the pagination envelope of the
\* pages holds: a cycle that is in get_resources() leaves it.
C26_GetResourcesTerminates ==
    (pc = "get_resources") ~> (pc # "get_resources")

\* A collector's request has ended after a single attempt with a response
\* that the advanced variant's retry policy does not retry either.
Unretried ==
    /\ pc \in {"get_resources", "get_resource_stats", "get_alerts"}
    /\ http.st = "done"
    /\ http.attempts = 1
    /\ http.result.kind = "response"
    /\ ~is_retry(Session("advanced"), "GET", http.result.status)

\* The keys of the fetched resources and alerts, in list order.
ResourceKeys ==
    [i \in 1..Len(resources) |-> resource_key(Resource(resources[i]))]

AlertKeys ==
    [j \in 1..Len(alerts) |-> alert_key(Alert(alerts[j]))]

\* C27: under the default configuration and without retries the two
\* variants treat the same response alike: get_resources() has the same
\* list and takes the same decision to go on, get_alerts() returns alerts
\* in the one exactly when it does in the other; the count series with
\* which a cycle ends are, in either variant, those it found overwritten
\* with the counts of the fetched resources and alerts; and no cycle of
\* either variant fails.
C27_VariantsAgreeOnCounts ==
    config = DefaultConfig =>
        /\ (Unretried /\ pc = "get_resources") =>
              LET reply == PageReply(upstream, params_page)
                  b == get_resources_turn("basic", http.result, reply,
                                          resources)
                  a == get_resources_turn("advanced", http.result, reply,
                                          resources)
              IN  b.resources = a.resources /\ b.again = a.again
        /\ (Unretried /\ pc = "get_alerts") =>
              (page_outcome("basic", http.result).kind = "page")
                  = (page_outcome("advanced", http.result).kind = "page")
        /\ pc = "collected" =>
              /\ resource_count = set_counts(cycle_view.resource_count,
                                             count_keys(ResourceKeys))
              /\ alert_count = set_counts(cycle_view.alert_count,
                                          count_keys(AlertKeys))
        /\ pc \notin {"cooldown", "crashed"}

\* The second page request of a cycle was answered, at once, with a body
\* that is not JSON: the advanced variant gets None from make_api_request()
\* and breaks, the basic one catches the exception of response.json().
C27_Witness ==
    /\ config = DefaultConfig
    /\ Unretried
    /\ pc = "get_resources"
    /\ http.result = Response(200, "garbage")
    /\ resources = <<1, 2>>
    /\ upstream.total = 3
    /\ get_resources_turn("basic", http.result,
                          PageReply(upstream, params_page), resources).resources
          = <<1, 2>>

\* The error-counter series that the step adds to.
Incremented ==
    {key \in DOMAIN collection_errors' :
        collection_errors'[key] # Value(collection_errors, key)}

\* C28: in the advanced variant a failed stats request is counted in a
\* series of its own endpoint label: not under the label of the resource
\* listing, nor under that of the alerts.
C28_StatsErrorsOwnLabel ==
    [][(variant = "advanced" /\ StatsFailed /\ pc' = "walk") =>
        /\ Incremented # {}
        /\ \A key \in Incremented :
              key[1] \notin {error_endpoint(ResourcesPath),
                             error_endpoint(AlertsPath)}]_vars

====
